---- MODULE Spec2Model ----
(***************************************************************************)
(* A model of the WorkOS client library's two stateful cores:              *)
(*   - the shared, lock-guarded, lazily populated JWKS slot                *)
(*     (WorkOs.jwks, UserManagement::jwks), and                            *)
(*   - the list-events operation (ListEventsParams, list_events).          *)
(***************************************************************************)
EXTENDS Integers, Sequences, FiniteSets, TLC

\* ------------------------------------------------------------------ bounds
MaxCalls == 3       \* key-set lookups started in one run

Threads == {"t1", "t2", "t3"}
NoThread == "none"

\* ------------------------------------------------------------ option/result
None == [tag |-> "None"]
Some(v) == [tag |-> "Some", val |-> v]
Ok(v) == [tag |-> "Ok", val |-> v]
Err(e) == [tag |-> "Err", err |-> e]
NoRet == [tag |-> "NoRet"]

\* JwksError (the three variants)
MissingClientId == "MissingClientId"
Poison == "Poison"
UrlError == "Url"
JwksError == {MissingClientId, Poison, UrlError}

\* ------------------------------------------------------------ configuration
ClientIds == {"client_A", "client_B"}
DefaultBaseUrl == "https://api.workos.com"
\* base URLs a builder accepts: any string Url::parse accepts, among them URLs
\* that cannot be a base ("mailto:ops@example.com")
BaseUrls == {DefaultBaseUrl, "mailto:ops@example.com"}
CannotBeABase == {"mailto:ops@example.com"}

\* one process-wide slot handed to every client built
build_SharedSlot(base, cid, k) ==
    [base_url |-> base, client_id |-> cid, client |-> k, jwks |-> 1]

\* WorkOsBuilder::build: a client with its own reqwest client and a fresh
\* empty slot, Arc::new(Mutex::new(None)); k is the number of the allocation
build(base, cid, k) ==
    [base_url |-> base, client_id |-> cid, client |-> k, jwks |-> k]

\* WorkOs::jwks_cache: the Arc of the client's slot
jwks_cache(w) == w.jwks

\* UserManagement::new: a handle holding the client and a clone of its Arc
UserManagement_new(i, w) == [workos |-> i, jwks |-> jwks_cache(w)]

\* get_jwks_url: the key-set URL, derived from the base URL and the client
\* identifier; Url::join fails on a base that cannot be a base
get_jwks_url(base, cid) ==
    IF base \in CannotBeABase
    THEN Err("RelativeUrlWithCannotBeABaseBase")
    ELSE Ok([base |-> base, path |-> <<"sso", "jwks", cid>>])

\* RemoteJwkSet::new(client, url)
RemoteJwkSet_new(client, url) == [client |-> client, url |-> url]

\* ------------------------------------------------------------------- state
VARIABLES
    wos,        \* the WorkOs values alive: wos[i] is a client record
    slot,       \* slot[c]: the Option<RemoteJwkSet> inside the mutex
    holder,     \* holder[c]: the thread owning the MutexGuard, or NoThread
    poisoned,   \* poisoned[c]: the mutex's poison flag
    pc,         \* pc[t]: where thread t is inside jwks()
    um,         \* um[t]: the UserManagement handle of t's current/last lookup
    ret,        \* ret[t]: what t's last lookup returned
    ncalls,     \* lookups started so far
    startedEmpty, \* startedEmpty[t]: the slot was empty when t's lookup began
    concurrent, \* concurrent[t]: another lookup on the same empty slot overlapped t's
    attempted,  \* attempted[t]: t's lookup reached the fetch (line 66)
    fetches,    \* fetches[c]: RemoteJwkSet::new constructions stored in c
    urlFails    \* urlFails[c]: lookups on c that failed deriving the URL

cacheVars == <<wos, slot, holder, poisoned, pc, um, ret, ncalls,
               startedEmpty, concurrent, attempted, fetches, urlFails>>

\* the list operation's state
VARIABLES
    lpc,        \* where the list call is: "idle", "sent", "done" ("composed")
    params,     \* the ListEventsParams of the current call
    request,    \* the request the current call issued, or NoRequest
    sent,       \* requests issued by the current call
    response,   \* the response the transport delivered, or NoResponse
    result,     \* what the call returned
    observed,   \* cursors the caller has seen in returned pages
    memo        \* params and request of some earlier call of this run

listVars == <<lpc, params, request, sent, response, result, observed, memo>>

\* the clients of a run: two built separately and a clone of the first
Cells == {1, 2}
Insts == {1, 2, 3}
Configs == BaseUrls \X ({None} \cup {Some(x) : x \in ClientIds})

\* a clone that does not share the Arc: the copy refers to another slot
clone_OwnSlot(w) == [w EXCEPT !.jwks = 2]

\* #[derive(Clone)] on WorkOs: every field cloned, the Arc among them
clone(w) == w

NoHandle == [workos |-> 0, jwks |-> 0]

CacheInit ==
    /\ \E c1, c2 \in Configs :
          LET w1 == build(c1[1], c1[2], 1)
              w2 == build(c2[1], c2[2], 2) IN
          wos = <<w1, w2, clone(w1)>>
    /\ slot = [c \in Cells |-> None]
    /\ holder = [c \in Cells |-> NoThread]
    /\ poisoned = [c \in Cells |-> FALSE]
    /\ pc = [t \in Threads |-> "idle"]
    /\ um = [t \in Threads |-> NoHandle]
    /\ ret = [t \in Threads |-> NoRet]
    /\ ncalls = 0
    /\ startedEmpty = [t \in Threads |-> FALSE]
    /\ concurrent = [t \in Threads |-> FALSE]
    /\ attempted = [t \in Threads |-> FALSE]
    /\ fetches = [c \in Cells |-> 0]
    /\ urlFails = [c \in Cells |-> 0]

\* the client and the cell behind thread t's handle
WorkOsOf(t) == wos[um[t].workos]
CellOf(t) == um[t].jwks

\* ------------------------------------------------------ UserManagement::jwks
\* thread u is inside a lookup on cell c that began on the empty slot
FirstTimeOn(u, c) ==
    /\ pc[u] \in {"lock", "check", "fetch"}
    /\ um[u].jwks = c
    /\ startedEmpty[u]

\* workos.user_management().jwks() is invoked by thread t on client i
Call(t, i) ==
    /\ pc[t] = "idle"
    /\ ncalls < MaxCalls
    /\ um' = [um EXCEPT ![t] = UserManagement_new(i, wos[i])]
    /\ pc' = [pc EXCEPT ![t] = "lock"]
    /\ ret' = [ret EXCEPT ![t] = NoRet]
    /\ ncalls' = ncalls + 1
    /\ startedEmpty' = [startedEmpty EXCEPT ![t] = (slot[jwks_cache(wos[i])] = None)]
    /\ concurrent' =
          [u \in Threads |->
              LET c == jwks_cache(wos[i])
                  others == {v \in Threads \ {t} : FirstTimeOn(v, c)} IN
              IF slot[c] = None /\ others # {} /\ u \in others \cup {t} THEN TRUE
              ELSE IF u = t THEN FALSE
              ELSE concurrent[u]]
    /\ attempted' = [attempted EXCEPT ![t] = FALSE]
    /\ UNCHANGED <<wos, slot, holder, poisoned, fetches, urlFails>>
    /\ UNCHANGED listVars

\* a lock that excludes nobody
LockAvailable_NoExclusion(c) == TRUE

\* lookups of a client without identifier do not wait for the guard (the
\* identifier looked at before the lock)
LockAvailable_NoIdentifierFirst(c) ==
    \/ holder[c] = NoThread
    \/ \E i \in Insts : wos[i].jwks = c /\ wos[i].client_id = None

\* a waiter that stops waiting for a fetching holder (a lock with a timeout)
LockAvailable_Timeout(c) ==
    IF holder[c] = NoThread THEN TRUE ELSE pc[holder[c]] = "fetch"

\* Mutex::lock returns only when no other guard exists
LockAvailable(c) == holder[c] = NoThread

\* the poison flag ignored (PoisonError::into_inner)
LockResult_IgnoresPoison(isPoisoned) ==
    [next |-> "check", ret |-> NoRet, holds |-> TRUE]

\* the guard a temporary, dropped at the end of the locking statement
LockResult_GuardDropped(isPoisoned) ==
    IF isPoisoned THEN [next |-> "idle", ret |-> Err(Poison), holds |-> FALSE]
    ELSE [next |-> "check", ret |-> NoRet, holds |-> FALSE]

\* self.jwks.lock().map_err(Poison)?  : on a poisoned mutex the guard inside
\* the PoisonError is dropped at once and the lookup returns Err(Poison)
LockResult(isPoisoned) ==
    IF isPoisoned THEN [next |-> "idle", ret |-> Err(Poison), holds |-> FALSE]
    ELSE [next |-> "check", ret |-> NoRet, holds |-> TRUE]

Lock(t) ==
    /\ pc[t] = "lock"
    /\ LockAvailable(CellOf(t))
    /\ LET r == LockResult(poisoned[CellOf(t)]) IN
        /\ pc' = [pc EXCEPT ![t] = r.next]
        /\ ret' = [ret EXCEPT ![t] = r.ret]
        /\ holder' = [holder EXCEPT ![CellOf(t)] = IF r.holds THEN t ELSE NoThread]
    /\ UNCHANGED <<wos, slot, poisoned, um, ncalls,
                   startedEmpty, concurrent, attempted, fetches, urlFails>>
    /\ UNCHANGED listVars

\* the cached value never consulted
CheckStep_NoCache(s, w) ==
    IF w.client_id = None
    THEN [next |-> "idle", ret |-> Err(MissingClientId), slot |-> s]
    ELSE [next |-> "fetch", ret |-> NoRet, slot |-> s]

\* the identifier check left out
CheckStep_NoIdCheck(s, w) ==
    IF s # None THEN [next |-> "idle", ret |-> Ok(s.val), slot |-> s]
    ELSE [next |-> "fetch", ret |-> NoRet, slot |-> s]

\* the cached value moved out of the slot (Option::take)
CheckStep_Take(s, w) ==
    IF s # None THEN [next |-> "idle", ret |-> Ok(s.val), slot |-> None]
    ELSE IF w.client_id = None
         THEN [next |-> "idle", ret |-> Err(MissingClientId), slot |-> s]
         ELSE [next |-> "fetch", ret |-> NoRet, slot |-> s]

\* lines 58-64, under the guard: the cached value, else the identifier check
CheckStep(s, w) ==
    IF s # None THEN [next |-> "idle", ret |-> Ok(s.val), slot |-> s]
    ELSE IF w.client_id = None
         THEN [next |-> "idle", ret |-> Err(MissingClientId), slot |-> s]
         ELSE [next |-> "fetch", ret |-> NoRet, slot |-> s]

Check(t) ==
    /\ pc[t] = "check"
    /\ LET c == CellOf(t)
           r == CheckStep(slot[c], WorkOsOf(t)) IN
        /\ pc' = [pc EXCEPT ![t] = r.next]
        /\ ret' = [ret EXCEPT ![t] = r.ret]
        /\ slot' = [slot EXCEPT ![c] = r.slot]
        /\ attempted' = [attempted EXCEPT ![t] = (r.next = "fetch")]
        \* a return drops the guard
        /\ holder' = [holder EXCEPT ![c] = IF r.next = "idle" THEN NoThread ELSE @]
    /\ UNCHANGED <<wos, poisoned, um, ncalls, startedEmpty, concurrent,
                   fetches, urlFails>>
    /\ UNCHANGED listVars

\* a key set stored before the URL result is looked at
FetchStep_CachesFailure(s, w) ==
    LET url == get_jwks_url(w.base_url, w.client_id.val) IN
    IF url.tag = "Err"
    THEN [ret |-> Err(UrlError), slot |-> Some(RemoteJwkSet_new(w.client, url)),
          built |-> 0, failed |-> 1, releases |-> TRUE]
    ELSE LET new_jwks == RemoteJwkSet_new(w.client, url.val) IN
         [ret |-> Ok(new_jwks), slot |-> Some(new_jwks), built |-> 1,
          failed |-> 0, releases |-> TRUE]

\* the guard leaked on the error return (mem::forget of the guard)
FetchStep_LeaksGuardOnError(s, w) ==
    LET url == get_jwks_url(w.base_url, w.client_id.val) IN
    IF url.tag = "Err"
    THEN [ret |-> Err(UrlError), slot |-> s, built |-> 0, failed |-> 1,
          releases |-> FALSE]
    ELSE LET new_jwks == RemoteJwkSet_new(w.client, url.val) IN
         [ret |-> Ok(new_jwks), slot |-> Some(new_jwks), built |-> 1,
          failed |-> 0, releases |-> TRUE]

\* the key-set URL derived from a fixed identifier, not the configured one
FetchStep_FixedIdentifier(s, w) ==
    LET url == get_jwks_url(w.base_url, "client_A") IN
    IF url.tag = "Err"
    THEN [ret |-> Err(UrlError), slot |-> s, built |-> 0, failed |-> 1,
          releases |-> TRUE]
    ELSE LET new_jwks == RemoteJwkSet_new(w.client, url.val) IN
         [ret |-> Ok(new_jwks), slot |-> Some(new_jwks), built |-> 1,
          failed |-> 0, releases |-> TRUE]

\* lines 66-71, under the guard: derive the URL, construct the key set,
\* store a clone, return it; `?` returns the URL error with the slot as it was
FetchStep(s, w) ==
    LET url == get_jwks_url(w.base_url, w.client_id.val) IN
    IF url.tag = "Err"
    THEN [ret |-> Err(UrlError), slot |-> s, built |-> 0, failed |-> 1,
          releases |-> TRUE]
    ELSE LET new_jwks == RemoteJwkSet_new(w.client, url.val) IN
         [ret |-> Ok(new_jwks), slot |-> Some(new_jwks), built |-> 1,
          failed |-> 0, releases |-> TRUE]

Fetch(t) ==
    /\ pc[t] = "fetch"
    /\ LET c == CellOf(t)
           r == FetchStep(slot[c], WorkOsOf(t)) IN
        /\ pc' = [pc EXCEPT ![t] = "idle"]
        /\ ret' = [ret EXCEPT ![t] = r.ret]
        /\ slot' = [slot EXCEPT ![c] = r.slot]
        /\ fetches' = [fetches EXCEPT ![c] = @ + r.built]
        /\ urlFails' = [urlFails EXCEPT ![c] = @ + r.failed]
        /\ holder' = [holder EXCEPT ![c] = IF r.releases THEN NoThread ELSE @]
    /\ UNCHANGED <<wos, poisoned, um, ncalls, startedEmpty, concurrent,
                   attempted>>
    /\ UNCHANGED listVars

\* a thread unwinds while it owns the guard (inside the calls of lines 66-67):
\* dropping the guard during a panic poisons the mutex and releases it
Panic(t) ==
    /\ pc[t] = "fetch"
    /\ pc' = [pc EXCEPT ![t] = "panicked"]
    /\ poisoned' = [poisoned EXCEPT ![CellOf(t)] = TRUE]
    /\ holder' = [holder EXCEPT ![CellOf(t)] = NoThread]
    /\ UNCHANGED <<wos, slot, um, ret, ncalls, startedEmpty, concurrent,
                   attempted, fetches, urlFails>>
    /\ UNCHANGED listVars

CacheNext ==
    \/ \E t \in Threads, i \in Insts : Call(t, i)
    \/ \E t \in Threads : Lock(t)
    \/ \E t \in Threads : Check(t)
    \/ \E t \in Threads : Fetch(t)


\* -------------------------------------------------------------- list events
ApiKey == "sk_example_123456789"

\* EventName variants and their wire strings
EventNames == {"DsyncUserCreated", "DsyncUserUpdated", "DsyncUserDeleted"}
EventName_wire(n) ==
    CASE n = "DsyncUserCreated" -> "dsync.user.created"
      [] n = "DsyncUserUpdated" -> "dsync.user.updated"
      [] n = "DsyncUserDeleted" -> "dsync.user.deleted"

\* PaginationParams and its Default
PaginationOrders == {"asc", "desc"}
PaginationParams_default ==
    [order |-> "desc", limit |-> None, before |-> None, after |-> None]

\* the query serializer: an absent Option writes nothing, a present one a
\* single pair
serialize_option(key, o) ==
    IF o = None THEN <<>> ELSE <<<<key, o.val>>>>

\* a sequence value: one pair per element under the same key, in order; an
\* empty sequence is an empty parameter
RECURSIVE serialize_seq_entries(_, _)
serialize_seq_entries(key, vals) ==
    IF vals = <<>> THEN <<>>
    ELSE <<<<key, EventName_wire(Head(vals))>>>> \o serialize_seq_entries(key, Tail(vals))

serialize_seq(key, vals) ==
    IF vals = <<>> THEN <<<<key, "">>>> ELSE serialize_seq_entries(key, vals)

\* a filter predicate that never reports empty
EventFilters_is_empty_Never(f) == FALSE

\* EventFilters::is_empty
EventFilters_is_empty(f) == Len(f) = 0

\* the filter rendered as a set of values: sorted by wire string, duplicates
\* dropped
EventFilters_serialize_AsSet(f) ==
    LET present == {EventName_wire(f[i]) : i \in 1..Len(f)}
        order == <<"dsync.user.created", "dsync.user.deleted", "dsync.user.updated">>
        kept == SelectSeq(order, LAMBDA w : w \in present) IN
    [i \in 1..Len(kept) |-> <<"events[]", kept[i]>>]

\* #[derive(Serialize)] struct EventFilters(Vec<EventName>) under the field's
\* name "events[]"
EventFilters_serialize(f) == serialize_seq("events[]", f)

\* #[serde(flatten)] pagination: its fields, in place
serialize_PaginationParams(p) ==
    <<<<"order", p.order>>>>
        \o (IF p.limit = None THEN <<>> ELSE <<<<"limit", ToString(p.limit.val)>>>>)
        \o serialize_option("before", p.before)
        \o serialize_option("after", p.after)

\* the pagination written as one nested value (no flatten) and absent
\* scalars written as empty parameters
serialize_ListEventsParams_Nested(p) ==
    <<<<"pagination", p.pagination.order>>>>
        \o (IF EventFilters_is_empty(p.events) THEN <<>>
            ELSE EventFilters_serialize(p.events))
        \o <<<<"organization_id", IF p.organization_id = None THEN ""
                                  ELSE p.organization_id.val>>>>
        \o serialize_option("range_start", p.range_start)
        \o serialize_option("range_end", p.range_end)

\* the cursor left out when a range start is given
serialize_ListEventsParams_DropsAfter(p) ==
    serialize_PaginationParams(
            [p.pagination EXCEPT !.after = IF p.range_start = None THEN @ ELSE None])
        \o (IF EventFilters_is_empty(p.events) THEN <<>>
            ELSE EventFilters_serialize(p.events))
        \o serialize_option("organization_id", p.organization_id)
        \o serialize_option("range_start", p.range_start)
        \o serialize_option("range_end", p.range_end)

\* #[derive(Serialize)] struct ListEventsParams: the fields in declaration
\* order; events is skipped when EventFilters::is_empty
serialize_ListEventsParams(p) ==
    serialize_PaginationParams(p.pagination)
        \o (IF EventFilters_is_empty(p.events) THEN <<>>
            ELSE EventFilters_serialize(p.events))
        \o serialize_option("organization_id", p.organization_id)
        \o serialize_option("range_start", p.range_start)
        \o serialize_option("range_end", p.range_end)

\* self.workos.base_url().join("/events")
events_url(base) ==
    IF base \in CannotBeABase
    THEN Err("UrlParseError")
    ELSE Ok([base |-> base, path |-> <<"events">>])

NoRequest == [tag |-> "NoRequest"]
NoResponse == [tag |-> "NoResponse"]
NoMemo == [tag |-> "NoMemo"]

\* a request the call builder remembers a position for: the cursor of the
\* caller's last page stands in for an absent `after`
list_request_AutoAdvance(url, key, p) ==
    LET last == IF result.tag = "Ok" THEN result.val.metadata.after ELSE None
        q == [p EXCEPT !.pagination.after = IF @ = None THEN last ELSE @] IN
    [method |-> "GET", url |-> url, query |-> serialize_ListEventsParams(q),
     authorization |-> <<"Bearer", key>>]

\* client.get(url).query(&params).bearer_auth(key)
list_request(url, key, p) ==
    [method |-> "GET", url |-> url, query |-> serialize_ListEventsParams(p),
     authorization |-> <<"Bearer", key>>]

\* ---- the remote API
\* the events the server holds, in the order it serves them
EvLog == <<[id |-> "event_03", event |-> "dsync.user.created"],
           [id |-> "event_01", event |-> "dsync.group.user_added"],
           [id |-> "event_02", event |-> "dsync.user.updated"]>>
DefaultPageSize == 2
JsonNull == "null"
Cursors == {EvLog[i].id : i \in 1..Len(EvLog)}

RECURSIVE query_get(_, _)
query_get(query, key) ==
    IF query = <<>> THEN None
    ELSE IF Head(query)[1] = key THEN Some(Head(query)[2])
    ELSE query_get(Tail(query), key)

ServerPage(query) ==
    LET a == query_get(query, "after")
        l == query_get(query, "limit")
        idx == {i \in 1..Len(EvLog) : a # None /\ EvLog[i].id = a.val}
        start == IF idx = {} THEN 0 ELSE CHOOSE i \in idx : TRUE
        size == IF l = None THEN DefaultPageSize
                ELSE CHOOSE n \in 1..Len(EvLog) : ToString(n) = l.val
        end == IF start + size < Len(EvLog) THEN start + size ELSE Len(EvLog)
        data == SubSeq(EvLog, start + 1, end) IN
    [tag |-> "json_list", object |-> "list", data |-> data,
     list_metadata |-> [after |-> IF end < Len(EvLog) /\ data # <<>>
                                  THEN data[Len(data)].id ELSE JsonNull]]

\* what the transport can deliver for a request
Responses(req) ==
    {[kind |-> "transport_error", status |-> 0, body |-> [tag |-> "none"]],
     [kind |-> "http", status |-> 401, body |-> [tag |-> "json_error"]],
     [kind |-> "http", status |-> 500, body |-> [tag |-> "json_error"]],
     [kind |-> "http", status |-> 200, body |-> [tag |-> "malformed"]],
     [kind |-> "http", status |-> 200, body |-> ServerPage(req.query)]}

\* ---- the response path
\* ResponseExt::handle_unauthorized_or_generic_error
handle_unauthorized_or_generic_error(resp) ==
    IF resp.status = 401 THEN Err("Unauthorized")
    ELSE IF resp.status >= 400 THEN Err("RequestError")
    ELSE Ok(resp)

\* KnownOrUnknown<EventName, String>
parse_event_name(w) ==
    IF \E n \in EventNames : EventName_wire(n) = w
    THEN [known |-> TRUE, name |-> CHOOSE n \in EventNames : EventName_wire(n) = w]
    ELSE [known |-> FALSE, name |-> w]

parse_event(j) == [id |-> <<"EventId", j.id>>, event |-> parse_event_name(j.event)]

RECURSIVE parse_events(_)
parse_events(js) ==
    IF js = <<>> THEN <<>> ELSE <<parse_event(Head(js))>> \o parse_events(Tail(js))

json_option(v) == IF v = JsonNull THEN None ELSE Some(v)

\* Response::json::<PaginatedList<Event>>
json_PaginatedList(body) ==
    IF body.tag # "json_list" THEN Err("RequestError")
    ELSE Ok([data |-> parse_events(body.data),
             metadata |-> [after |-> json_option(body.list_metadata.after)]])

\* whatever arrives is turned into a page
list_events_response_Lenient(resp) ==
    IF resp.body.tag # "json_list" THEN Ok([data |-> <<>>, metadata |-> [after |-> None]])
    ELSE json_PaginatedList(resp.body)

\* the status never looked at: the body decides
list_events_response_NoStatusCheck(resp) ==
    IF resp.kind = "transport_error" THEN Err("RequestError")
    ELSE json_PaginatedList(resp.body)

\* list_events, from .send() on: the transport result, the status check, the
\* body
list_events_response(resp) ==
    IF resp.kind = "transport_error" THEN Err("RequestError")
    ELSE LET h == handle_unauthorized_or_generic_error(resp) IN
         IF h.tag = "Err" THEN h ELSE json_PaginatedList(h.val.body)

ListIdle ==
    /\ lpc = "idle"
    /\ params = [pagination |-> PaginationParams_default, events |-> <<>>,
                 organization_id |-> None, range_start |-> None, range_end |-> None]
    /\ request = NoRequest
    /\ sent = 0
    /\ response = NoResponse
    /\ result = NoRet
    /\ observed = {}
    /\ memo = NoMemo

\* the Events handle of the list model is workos.events() of client 1
EventsClient == wos[1]

\* the parameters a caller walking the pages passes
WalkParams ==
    [pagination : [order : {"desc"}, limit : {None, Some(1)}, before : {None},
                   after : {None} \cup {Some(c) : c \in observed}],
     events : {<<>>, <<"DsyncUserCreated">>},
     organization_id : {None},
     range_start : {None, Some("2023-06-09")},
     range_end : {None}]

\* events().list_events(&p) up to .send(): the URL, the request
ListCall(p) ==
    /\ lpc \in {"idle", "done"}
    /\ params' = p
    /\ LET url == events_url(EventsClient.base_url) IN
        IF url.tag = "Err"
        THEN /\ request' = NoRequest
             /\ sent' = 0
             /\ result' = url
             /\ lpc' = "done"
        ELSE /\ request' = list_request(url.val, ApiKey, p)
             /\ sent' = 1
             /\ result' = NoRet
             /\ lpc' = "sent"
    /\ response' = NoResponse
    /\ \E keep \in BOOLEAN :
          memo' = IF keep \/ request = NoRequest THEN memo
                  ELSE [tag |-> "Memo", params |-> params, request |-> request]
    /\ UNCHANGED <<observed>>
    /\ UNCHANGED cacheVars

\* the transport delivers resp; the call returns
Deliver(resp) ==
    /\ response' = resp
    /\ result' = list_events_response(resp)
    /\ lpc' = "done"
    /\ observed' = observed \cup
          (IF result'.tag = "Ok" /\ result'.val.metadata.after # None
           THEN {result'.val.metadata.after.val} ELSE {})
    /\ UNCHANGED <<params, request, sent, memo>>
    /\ UNCHANGED cacheVars

Respond ==
    /\ lpc = "sent"
    /\ \E resp \in Responses(request) : Deliver(resp)

ListNext ==
    \/ \E p \in WalkParams : ListCall(p)
    \/ Respond

\* ---- composing parameters (the serializer alone)
MaxFilters == 3
RECURSIVE SeqsUpTo(_, _)
SeqsUpTo(S, n) ==
    IF n = 0 THEN {<<>>}
    ELSE LET shorter == SeqsUpTo(S, n - 1) IN
         shorter \cup {Append(q, x) : q \in shorter, x \in S}

ComposeParams ==
    [pagination : [order : PaginationOrders, limit : {None, Some(10)},
                   before : {None, Some("event_09")},
                   after : {None, Some("event_01")}],
     events : SeqsUpTo(EventNames, MaxFilters),
     organization_id : {None, Some("org_01EHZNVPK3SFK441A1RGBFSHRT")},
     range_start : {None, Some("2023-06-09")},
     range_end : {None, Some("2023-06-10")}]

Compose ==
    /\ lpc = "idle"
    /\ request' = list_request(events_url(DefaultBaseUrl).val, ApiKey, params)
    /\ lpc' = "composed"
    /\ UNCHANGED <<params, sent, response, result, observed, memo>>
    /\ UNCHANGED cacheVars

vars == <<cacheVars, listVars>>

\* the key-set cache: clients built, lookups from any thread
Init == CacheInit /\ ListIdle
Next == CacheNext
Spec == Init /\ [][Next]_vars

\* the same with a holder of the guard unwinding
NextPoison == CacheNext \/ \E t \in Threads : Panic(t)
SpecPoison == Init /\ [][NextPoison]_vars

\* the lookups under a scheduler that lets every thread run and a mutex that
\* grants the lock to every waiter, no holder of the guard unwinding
Fairness ==
    \A t \in Threads :
        /\ SF_vars(Lock(t))
        /\ WF_vars(Check(t))
        /\ WF_vars(Fetch(t))
\* the first client and its clone in every configuration, beside a second
\* client built with the defaults
FairInit ==
    /\ Init
    /\ wos[2] = build(DefaultBaseUrl, None, 2)
FairSpec == FairInit /\ [][Next]_vars /\ Fairness

\* the list operation: one client, a caller walking the pages
ListInit ==
    /\ CacheInit
    /\ wos[2] = build(DefaultBaseUrl, None, 2)
    /\ wos[1].client_id = None
    /\ ListIdle
ListSpec == ListInit /\ [][ListNext]_vars

\* the serializer applied to every parameter value within the bounds
ComposeInit ==
    /\ CacheInit
    /\ wos[2] = build(DefaultBaseUrl, None, 2)
    /\ wos[1] = build(DefaultBaseUrl, None, 1)
    /\ lpc = "idle"
    /\ params \in ComposeParams
    /\ request = NoRequest
    /\ sent = 0
    /\ response = NoResponse
    /\ result = NoRet
    /\ observed = {}
    /\ memo = NoMemo
ComposeSpec == ComposeInit /\ [][Compose]_vars

TypeOK ==
    /\ DOMAIN wos = Insts
    /\ \A c \in Cells : holder[c] \in Threads \cup {NoThread}
    /\ \A t \in Threads : pc[t] \in {"idle", "lock", "check", "fetch", "panicked"}
    /\ ncalls \in 0..MaxCalls
\* ------------------------------------------------------------------ claims
Returned(t) == pc[t] = "idle" /\ ret[t] # NoRet
Started(t) == um[t] # NoHandle
\* the key-set URL of thread t's client can be derived
UrlDerivable(t) ==
    /\ WorkOsOf(t).client_id # None
    /\ get_jwks_url(WorkOsOf(t).base_url, WorkOsOf(t).client_id.val).tag = "Ok"
\* t returned from a lookup that began on the empty slot of a client with an
\* identifier, while another such lookup on the same slot was in progress
FirstTimeCaller(t) ==
    /\ Started(t) /\ Returned(t)
    /\ startedEmpty[t] /\ concurrent[t]
    /\ WorkOsOf(t).client_id # None
SingleFlightFor(t) ==
    /\ ret[t].tag = "Ok"
    /\ fetches[CellOf(t)] = 1
    /\ \A u \in Threads :
          (FirstTimeCaller(u) /\ CellOf(u) = CellOf(t)) => ret[u] = ret[t]

\* C1 as stated: concurrent first-time lookups on an empty slot of a client
\* with a configured identifier see exactly one construction of the key set
\* and all return equal key sets.
C1_SingleFlight_AsStated ==
    \A t \in Threads : FirstTimeCaller(t) => SingleFlightFor(t)

\* C1 (amended): the same, for clients whose key-set URL can be derived; when
\* the derivation fails no key set is constructed and every concurrent
\* first-time caller returns the URL error.
C1_SingleFlight ==
    \A t \in Threads :
        FirstTimeCaller(t) =>
            IF UrlDerivable(t) THEN SingleFlightFor(t)
            ELSE ret[t] = Err(UrlError) /\ fetches[CellOf(t)] = 0

C1_Witness ==
    \E t, u \in Threads :
        /\ t # u /\ FirstTimeCaller(t) /\ FirstTimeCaller(u)
        /\ CellOf(t) = CellOf(u)
        /\ ret[t].tag = "Ok" /\ ret[u] = ret[t]
        /\ fetches[CellOf(t)] = 1

\* C2: a lookup that begins once the slot is populated never reaches the
\* fetch, constructs nothing, and returns the value the populating lookup
\* stored and returned.
C2_CacheStability ==
    \A t \in Threads :
        (Started(t) /\ ~startedEmpty[t]) =>
            /\ ~attempted[t] /\ pc[t] # "fetch"
            /\ fetches[CellOf(t)] = 1
            /\ slot[CellOf(t)] # None
            /\ Returned(t) => ret[t] = Ok(slot[CellOf(t)].val)
            /\ \A p \in Threads :
                  (Returned(p) /\ Returned(t) /\ attempted[p] /\ ret[p].tag = "Ok"
                     /\ CellOf(p) = CellOf(t)) => ret[t] = ret[p]

C2_Witness ==
    \E t, p \in Threads :
        /\ t # p /\ Returned(t) /\ Returned(p)
        /\ CellOf(t) = CellOf(p)
        /\ attempted[p] /\ ret[p].tag = "Ok"
        /\ ~startedEmpty[t] /\ ret[t] = ret[p]

\* C3: a lookup on a client with no configured identifier returns
\* MissingClientId, never reaches the fetch, and the slot stays empty.
C3_MissingIdentifier ==
    \A t \in Threads :
        (Started(t) /\ WorkOsOf(t).client_id = None) =>
            /\ ~attempted[t] /\ pc[t] # "fetch"
            /\ fetches[CellOf(t)] = 0
            /\ slot[CellOf(t)] = None
            /\ Returned(t) => ret[t] = Err(MissingClientId)

C3_Witness ==
    \E t, u \in Threads :
        /\ t # u /\ Returned(t) /\ Returned(u) /\ CellOf(t) = CellOf(u)
        /\ WorkOsOf(t).client_id = None
        /\ ret[t] = Err(MissingClientId) /\ ret[u] = Err(MissingClientId)
        /\ slot[CellOf(t)] = None

\* C4: a lookup whose URL derivation fails returns the URL error, leaves the
\* slot empty and the lock released and not poisoned; the failure is not
\* cached: a later lookup that finds the slot empty goes on to the fetch.
C4_FetchFailureRetryable ==
    /\ [][\A t \in Threads :
            (pc[t] = "fetch" /\ ~UrlDerivable(t) /\ pc'[t] # "fetch") =>
                /\ pc'[t] = "idle"
                /\ ret'[t] = Err(UrlError)
                /\ slot'[CellOf(t)] = None
                /\ holder'[CellOf(t)] = NoThread
                /\ ~poisoned'[CellOf(t)]]_vars
    /\ [][\A t \in Threads :
            (pc[t] = "check" /\ urlFails[CellOf(t)] > 0 /\ pc'[t] # "check") =>
                pc'[t] = "fetch" /\ attempted'[t]]_vars
    /\ [](\A t \in Threads :
            (Returned(t) /\ ret[t] = Err(UrlError)) =>
                attempted[t] /\ slot[CellOf(t)] = None)

C4_Witness ==
    \E t \in Threads :
        /\ pc[t] = "fetch" /\ urlFails[CellOf(t)] > 0
        /\ slot[CellOf(t)] = None /\ ~poisoned[CellOf(t)]
        /\ \E u \in Threads \ {t} :
              Returned(u) /\ CellOf(u) = CellOf(t) /\ ret[u] = Err(UrlError)

\* C5: on a poisoned lock a lookup returns Poison, an error distinct from the
\* other two, without unwinding, fetching or touching the slot; nobody enters
\* the guarded section of a poisoned lock and the flag is never cleared.
C5_PoisonIsExplicitError ==
    /\ [][\A t \in Threads :
            (pc[t] = "lock" /\ poisoned[CellOf(t)] /\ pc'[t] # "lock") =>
                /\ pc'[t] = "idle"
                /\ ret'[t] = Err(Poison)
                /\ slot' = slot /\ fetches' = fetches /\ urlFails' = urlFails
                /\ ~attempted'[t]
                /\ holder'[CellOf(t)] = NoThread]_vars
    /\ [][\A c \in Cells : poisoned[c] => poisoned'[c]]_vars
    /\ [](\A t \in Threads :
            (Started(t) /\ poisoned[CellOf(t)]) => pc[t] \notin {"check", "fetch"})
    /\ [](Poison \notin {MissingClientId, UrlError})

C5_Witness ==
    \E t, u \in Threads :
        /\ t # u /\ Returned(t) /\ Returned(u) /\ CellOf(t) = CellOf(u)
        /\ poisoned[CellOf(t)]
        /\ ret[t] = Err(Poison) /\ ret[u] = Err(Poison)
        /\ slot[CellOf(t)] = None

\* C6: a populated slot keeps its value in every step.
C6_SlotMonotonic ==
    [][\A c \in Cells : slot[c] # None => slot'[c] = slot[c]]_vars

C6_Witness ==
    \E c \in Cells :
        /\ slot[c] # None
        /\ Cardinality({t \in Threads : Returned(t) /\ CellOf(t) = c}) >= 2
        /\ \E d \in Cells : poisoned[d]
\* the entries of a query under one key, in order
EntriesOf(query, key) == SelectSeq(query, LAMBDA pr : pr[1] = key)

\* C7: a successful list call returns the response's data, element for
\* element in the response's order, and the response's list_metadata.after as
\* its next cursor; after = null gives no next cursor.
C7_PageExtraction ==
    (lpc = "done" /\ result.tag = "Ok") =>
        /\ response.kind = "http" /\ response.status = 200
        /\ response.body.tag = "json_list"
        /\ Len(result.val.data) = Len(response.body.data)
        /\ \A i \in 1..Len(response.body.data) :
              result.val.data[i].id = <<"EventId", response.body.data[i].id>>
        /\ IF response.body.list_metadata.after = JsonNull
           THEN result.val.metadata.after = None
           ELSE result.val.metadata.after = Some(response.body.list_metadata.after)

C7_Witness ==
    /\ lpc = "done" /\ result.tag = "Ok"
    /\ Len(result.val.data) = 2
    /\ result.val.data[1].id = <<"EventId", "event_01">>
    /\ result.val.data[2].id = <<"EventId", "event_02">>
    /\ result.val.metadata.after = None
    /\ response.body.list_metadata.after = JsonNull

\* the request carries the call's own parameters and nothing else
RequestOfParams ==
    request # NoRequest =>
        /\ query_get(request.query, "after") = params.pagination.after
        /\ (memo # NoMemo /\ memo.params = params) => request = memo.request

\* C8 as stated: every list call issues exactly one request and returns at
\* most one page, and the request depends only on the call's parameters.
C8_NoAutoAdvance_AsStated ==
    /\ lpc \in {"sent", "done"} => sent = 1
    /\ RequestOfParams

\* C8 (amended): a list call issues at most one request: exactly one when the
\* endpoint URL can be joined to the base URL, and none otherwise, the call
\* then returning the URL error; the request depends only on the call's
\* parameters, so a cursor used again gives the same request again.
C8_NoAutoAdvance ==
    /\ sent \in {0, 1}
    /\ lpc \in {"sent", "done"} =>
          (sent = 1 <=> events_url(EventsClient.base_url).tag = "Ok")
    /\ (lpc = "done" /\ sent = 0) =>
          result = Err("UrlParseError") /\ request = NoRequest
    /\ RequestOfParams

C8_Witness ==
    /\ lpc = "done" /\ result.tag = "Ok" /\ sent = 1
    /\ params.pagination.after = Some("event_03")
    /\ memo # NoMemo /\ memo.params = params /\ request = memo.request
    /\ Cardinality(observed) >= 2

\* C9: a filter of N >= 1 values is rendered as exactly N entries under
\* events[], the i-th entry carrying the i-th value.
C9_FilterOrdering ==
    (lpc = "composed" /\ Len(params.events) >= 1) =>
        LET ev == EntriesOf(request.query, "events[]") IN
        /\ Len(ev) = Len(params.events)
        /\ \A i \in 1..Len(params.events) :
              ev[i] = <<"events[]", EventName_wire(params.events[i])>>

C9_Witness ==
    /\ lpc = "composed"
    /\ params.events = <<"DsyncUserUpdated", "DsyncUserCreated", "DsyncUserUpdated">>
    /\ EntriesOf(request.query, "events[]") =
          <<<<"events[]", "dsync.user.updated">>, <<"events[]", "dsync.user.created">>,
            <<"events[]", "dsync.user.updated">>>>

\* C10: an empty filter leaves no entry under events[] in the query, whatever
\* the other fields are.
C10_FilterOmission ==
    (lpc = "composed" /\ Len(params.events) = 0) =>
        \A i \in 1..Len(request.query) : request.query[i][1] # "events[]"

C10_Witness ==
    /\ lpc = "composed"
    /\ params.events = <<>>
    /\ params.organization_id # None /\ params.range_start # None
    /\ params.pagination.after # None
    /\ EntriesOf(request.query, "events[]") = <<>>
    /\ Len(request.query) >= 4
\* what an optional field contributes: nothing when absent, one entry when
\* present
OneOrNone(query, key, o) ==
    EntriesOf(query, key) = IF o = None THEN <<>> ELSE <<<<key, o.val>>>>

\* C11: each optional scalar and each optional pagination field contributes
\* no entry when absent and exactly one when present; pagination, filter and
\* scalar entries form one flat sequence of pairs; the three dsync filters with
\* default pagination and nothing else give {order: desc, events[] x 3}.
C11_OptionalScalarsFlatMerge ==
    lpc = "composed" =>
        LET q == request.query
            pg == params.pagination IN
        /\ OneOrNone(q, "organization_id", params.organization_id)
        /\ OneOrNone(q, "range_start", params.range_start)
        /\ OneOrNone(q, "range_end", params.range_end)
        /\ OneOrNone(q, "after", pg.after)
        /\ OneOrNone(q, "before", pg.before)
        /\ EntriesOf(q, "limit") =
              IF pg.limit = None THEN <<>> ELSE <<<<"limit", "10">>>>
        /\ EntriesOf(q, "order") = <<<<"order", pg.order>>>>
        /\ \A i \in 1..Len(q) :
              q[i][1] \in {"order", "limit", "before", "after", "events[]",
                           "organization_id", "range_start", "range_end"}
        /\ Len(q) = 1 + Len(params.events)
              + Cardinality({o \in {"organization_id", "range_start", "range_end"} :
                                params[o] # None})
              + Cardinality({o \in {"limit", "before", "after"} : pg[o] # None})
        /\ (/\ pg = PaginationParams_default
            /\ params.events = <<"DsyncUserCreated", "DsyncUserUpdated", "DsyncUserDeleted">>
            /\ params.organization_id = None
            /\ params.range_start = None /\ params.range_end = None)
           => /\ {q[i] : i \in 1..Len(q)} =
                    {<<"order", "desc">>, <<"events[]", "dsync.user.created">>,
                     <<"events[]", "dsync.user.updated">>,
                     <<"events[]", "dsync.user.deleted">>}
              /\ Len(q) = 4

C11_Witness ==
    /\ lpc = "composed"
    /\ params.pagination = PaginationParams_default
    /\ params.events = <<"DsyncUserCreated", "DsyncUserUpdated", "DsyncUserDeleted">>
    /\ params.organization_id = None
    /\ params.range_start = None /\ params.range_end = None
    /\ request.query = <<<<"order", "desc">>, <<"events[]", "dsync.user.created">>,
                         <<"events[]", "dsync.user.updated">>,
                         <<"events[]", "dsync.user.deleted">>>>
\* the response is a failure of the request
FailedResponse(resp) ==
    \/ resp.kind = "transport_error"
    \/ resp.status >= 400
    \/ resp.body.tag # "json_list"

C13_NoRetry ==
    /\ [](lpc = "done" /\ response # NoResponse /\ FailedResponse(response) =>
            /\ sent = 1
            /\ result.tag = "Err"
            /\ result = IF response.kind = "http" /\ response.status = 401
                        THEN Err("Unauthorized") ELSE Err("RequestError"))
    /\ [][lpc = "sent" => (sent' = sent /\ request' = request /\ lpc' = "done")]_vars
    /\ [][sent' = 1 => lpc \in {"idle", "done"} \/ sent = 1]_vars

C13_Witness ==
    /\ lpc = "done" /\ sent = 1
    /\ response.kind = "http" /\ response.status = 401
    /\ result = Err("Unauthorized")
    /\ memo # NoMemo
NoIdentifier(t) == Started(t) /\ WorkOsOf(t).client_id = None

\* C14 as stated: a lookup on a client with no configured identifier never
\* owns the slot's lock.
C14_IdentifierBeforeLock_AsStated ==
    \A t \in Threads : NoIdentifier(t) => holder[CellOf(t)] # t

\* C14 (amended): the lock comes first. A lookup on a client with no
\* configured identifier waits at the lock while another caller owns it,
\* returns MissingClientId only from under its own guard, which it then
\* releases, and never fetches; the lock of such a client is never poisoned.
C14_LockBeforeIdentifier ==
    /\ [][\A t \in Threads :
            (NoIdentifier(t) /\ pc[t] = "lock" /\ holder[CellOf(t)] # NoThread) =>
                pc'[t] = "lock"]_vars
    /\ [][\A t \in Threads :
            (NoIdentifier(t) /\ pc[t] = "lock" /\ pc'[t] # "lock") =>
                pc'[t] = "check" /\ holder'[CellOf(t)] = t]_vars
    /\ [][\A t \in Threads :
            (ret[t] # Err(MissingClientId) /\ ret'[t] = Err(MissingClientId)) =>
                /\ pc[t] = "check" /\ holder[CellOf(t)] = t
                /\ pc'[t] = "idle" /\ holder'[CellOf(t)] = NoThread
                /\ ~attempted'[t]]_vars
    /\ [](\A t \in Threads : NoIdentifier(t) => ~poisoned[CellOf(t)])

C14_Witness ==
    \E t, u \in Threads :
        /\ t # u /\ NoIdentifier(t) /\ NoIdentifier(u) /\ CellOf(t) = CellOf(u)
        /\ pc[t] = "lock" /\ pc[u] = "check" /\ holder[CellOf(t)] = u
        /\ \E v \in Threads : ret[v] = Err(MissingClientId)
\* t is inside the guarded section (lines 58-71) of cell c
InSection(t, c) == Started(t) /\ CellOf(t) = c /\ pc[t] \in {"check", "fetch"}

\* C15: the guard is owned from the emptiness check through the fetch to the
\* store: whoever is in the guarded section owns the guard, so at most one
\* caller is in it per slot, and the slot a fetching caller found empty is
\* still empty (nobody else read or wrote it) until that caller stores.
C15_LockHeldAcrossFetch ==
    \A c \in Cells :
        /\ \A t \in Threads : InSection(t, c) <=> holder[c] = t
        /\ Cardinality({t \in Threads : InSection(t, c)}) <= 1
        /\ \A t \in Threads :
              (InSection(t, c) /\ pc[t] = "fetch") =>
                  /\ slot[c] = None
                  /\ \A u \in Threads \ {t} :
                        (Started(u) /\ CellOf(u) = c) => pc[u] \in {"idle", "lock", "panicked"}

C15_Witness ==
    \E t, u, v \in Threads :
        /\ t # u /\ u # v /\ t # v
        /\ pc[t] = "fetch" /\ holder[CellOf(t)] = t
        /\ pc[u] = "lock" /\ pc[v] = "lock"
        /\ CellOf(u) = CellOf(t) /\ CellOf(v) = CellOf(t)
        /\ slot[CellOf(t)] = None
\* instances i and j are the same client (one built it, the others cloned it)
SameClient(i, j) == wos[i].client = wos[j].client

\* C16: all instances of a client and all handles made from them refer to
\* one slot; once the slot is populated, a lookup through any handle of that
\* client, made before or after the population, through the built instance
\* or a clone, passes the lock and returns the stored value without a fetch,
\* so all successful lookups of a client return the same value.
C16_SharedSlot ==
    /\ [](\A i, j \in Insts : SameClient(i, j) => jwks_cache(wos[i]) = jwks_cache(wos[j]))
    /\ [](\A t \in Threads : Started(t) => CellOf(t) = jwks_cache(WorkOsOf(t)))
    /\ [][\A t \in Threads :
            (Started(t) /\ slot[jwks_cache(WorkOsOf(t))] # None /\ pc'[t] # pc[t]) =>
                /\ pc[t] = "lock" => pc'[t] = "check"
                /\ pc[t] = "check" =>
                      /\ pc'[t] = "idle" /\ ~attempted'[t]
                      /\ ret'[t] = Ok(slot[jwks_cache(WorkOsOf(t))].val)
                      /\ UNCHANGED <<slot, fetches>>]_vars
    /\ [](\A t, u \in Threads :
            (/\ Started(t) /\ Started(u) /\ Returned(t) /\ Returned(u)
             /\ SameClient(um[t].workos, um[u].workos)
             /\ ret[t].tag = "Ok" /\ ret[u].tag = "Ok") => ret[t] = ret[u])

\* one lookup fetched through the built instance; a handle of the clone made
\* before the population and a handle made after it both returned its value
C16_Witness ==
    \E t, u, v \in Threads :
        /\ t # u /\ u # v /\ t # v
        /\ Returned(t) /\ Returned(u) /\ Returned(v)
        /\ um[t].workos = 1 /\ um[u].workos = 3 /\ um[v].workos \in {1, 3}
        /\ attempted[t] /\ ret[t].tag = "Ok"
        /\ startedEmpty[u] /\ ~attempted[u] /\ ret[u] = ret[t]
        /\ ~startedEmpty[v] /\ ~attempted[v] /\ ret[v] = ret[t]
\* u is inside a lookup on the slot t's lookup uses, t being another caller
OtherLookupOn(u, t) ==
    /\ u # t /\ Started(u) /\ CellOf(u) = CellOf(t)
    /\ pc[u] \in {"lock", "check", "fetch"}

\* C17: while a caller's cache-miss fetch is in progress, every other lookup
\* in progress on the same client waits at the lock, and as long as the fetch
\* goes on no such lookup moves or returns anything: no hit, no miss, no
\* error, no timeout.
C17_FetchBlocksOthers ==
    /\ [](\A t, u \in Threads :
            (pc[t] = "fetch" /\ OtherLookupOn(u, t)) => pc[u] = "lock" /\ ret[u] = NoRet)
    /\ [][\A t, u \in Threads :
            (pc[t] = "fetch" /\ pc'[t] = "fetch" /\ OtherLookupOn(u, t)) =>
                /\ pc'[u] = "lock" /\ ret'[u] = NoRet
                /\ slot'[CellOf(t)] = None /\ holder'[CellOf(t)] = t
                /\ ~poisoned'[CellOf(t)]
                /\ fetches'[CellOf(t)] = fetches[CellOf(t)]
                /\ urlFails'[CellOf(t)] = urlFails[CellOf(t)]]_vars

C17_Witness ==
    \E t, u \in Threads :
        /\ pc[t] = "fetch" /\ OtherLookupOn(u, t)
        /\ um[u].workos # um[t].workos
        /\ \E v \in Threads \ {t, u} : Returned(v) /\ CellOf(v) = CellOf(t)
\* t is inside a lookup
InProgress(t) == Started(t) /\ pc[t] \in {"lock", "check", "fetch"}

\* C18: every return of a lookup (hit, stored miss, missing identifier, URL
\* error) leaves the lock free, so the lock of a slot is free whenever no
\* lookup on it holds it in the guarded section; with the lock granted fairly,
\* fetches that end and no holder unwinding, every started lookup returns.
C18_LockReleasedAndProgress ==
    /\ [][\A t \in Threads :
            (pc[t] \in {"check", "fetch"} /\ pc'[t] = "idle") =>
                /\ ret'[t] # NoRet
                /\ holder'[CellOf(t)] = NoThread]_vars
    /\ [](\A c \in Cells :
            (\A t \in Threads : ~(InProgress(t) /\ CellOf(t) = c)) =>
                holder[c] = NoThread /\ ~poisoned[c])
    /\ \A t \in Threads : InProgress(t) ~> Returned(t)

\* all four kinds of return have happened or a waiter is behind a holder
C18_Witness ==
    \E t, u, v \in Threads :
        /\ t # u /\ u # v /\ t # v
        /\ Returned(t) /\ Returned(u) /\ Returned(v)
        /\ ret[t] = Err(UrlError) /\ ret[u] = Err(UrlError)
        /\ CellOf(t) = CellOf(u) /\ concurrent[t] /\ concurrent[u]
        /\ ret[v] \in {Err(MissingClientId)} \cup {Ok(slot[c].val) : c \in {d \in Cells : slot[d] # None}}
        /\ \A c \in Cells : holder[c] = NoThread
\* the key set a lookup through instance i constructs
KeySetOf(i) ==
    RemoteJwkSet_new(wos[i].client,
                     get_jwks_url(wos[i].base_url, wos[i].client_id.val).val)

\* C19: a populated slot holds the key set derived from the configured
\* identifier of its client; the instances sharing a slot have one identifier,
\* which never changes, so the stored value is the same whichever of their
\* lookups stored it.
C19_StoredFromConfiguredIdentifier ==
    /\ [](\A c \in Cells : \A i \in Insts :
            (slot[c] # None /\ jwks_cache(wos[i]) = c) =>
                /\ wos[i].client_id # None
                /\ slot[c].val.url.path = <<"sso", "jwks", wos[i].client_id.val>>
                /\ slot[c] = Some(KeySetOf(i)))
    /\ [](\A i, j \in Insts :
            jwks_cache(wos[i]) = jwks_cache(wos[j]) => wos[i].client_id = wos[j].client_id)
    /\ [][wos' = wos]_vars

\* the clone's lookup stored the key set of client_B; a lookup through the
\* built instance returned it
C19_Witness ==
    \E t, u \in Threads :
        /\ Returned(t) /\ Returned(u)
        /\ um[t].workos = 3 /\ attempted[t] /\ ret[t].tag = "Ok"
        /\ um[u].workos = 1 /\ ~attempted[u] /\ ret[u] = ret[t]
        /\ wos[1].client_id = Some("client_B")
        /\ slot[CellOf(t)] = Some(KeySetOf(1))
\* the state of cell c: slot, lock, poison flag and the counts kept with it
CellState(c) == <<slot[c], holder[c], poisoned[c], fetches[c], urlFails[c]>>

\* C20: every client built starts with a slot of its own, empty, its lock
\* free and not poisoned; two instances share a slot exactly when one is a
\* clone of the other; a step of a lookup (start, lock, check, store, error
\* return, unwinding) leaves the cell of every other client as it was.
C20_SeparateClientsIndependent ==
    /\ \A c \in Cells : slot[c] = None /\ holder[c] = NoThread /\ ~poisoned[c]
    /\ [](\A i, j \in Insts : jwks_cache(wos[i]) = jwks_cache(wos[j]) <=> SameClient(i, j))
    /\ [][\A t \in Threads : \A c \in Cells :
            (pc'[t] # pc[t] /\ c # jwks_cache(wos[um'[t].workos])) =>
                /\ slot'[c] = slot[c] /\ holder'[c] = holder[c]
                /\ poisoned'[c] = poisoned[c]
                /\ fetches'[c] = fetches[c] /\ urlFails'[c] = urlFails[c]]_vars
    /\ [](\A t \in Threads : \A c \in Cells :
            holder[c] = t => c = jwks_cache(WorkOsOf(t)))

\* one client's lock poisoned and a lookup on it refused, while the other,
\* separately built, client cached its key set
C20_Witness ==
    \E t, u, v \in Threads :
        /\ pc[t] = "panicked" /\ poisoned[CellOf(t)]
        /\ Returned(u) /\ CellOf(u) = CellOf(t) /\ ret[u] = Err(Poison)
        /\ Returned(v) /\ CellOf(v) # CellOf(t) /\ ret[v].tag = "Ok"
        /\ CellState(CellOf(v)) = <<Some(ret[v].val), NoThread, FALSE, 1, 0>>
        /\ slot[CellOf(t)] = None
====
